---- MODULE Spec2Model ----
(***************************************************************************)
(* Model of the OSHI Bot SDK client (sdk/oshi_bot.py): the OshiBot         *)
(* configuration, the request executor OshiBot._request with its single    *)
(* rate-limit retry and its error classification, the public operations    *)
(* built on it, send_to_all_groups and __repr__.                           *)
(*                                                                         *)
(* Strings are sequences of characters.  A JSON value is a record; a dict  *)
(* of keyword arguments is a function from key names to values.  The HTTP  *)
(* server and the network are the environment: every attempt may end in    *)
(* any response or in an exception.                                        *)
(***************************************************************************)
EXTENDS Integers, Sequences, FiniteSets, TLC

VARIABLES token, base_url, timeout, auto_retry,
          pc, op, last, result, groups, idx, results, sendLog, display

vars == <<token, base_url, timeout, auto_retry,
          pc, op, last, result, groups, idx, results, sendLog, display>>

config == <<token, base_url, timeout, auto_retry>>

-----------------------------------------------------------------------------
(* Bounds of the model *)

\* most groups an info response lists
MaxGroups == 2
\* longest token a client of the display specification is built with
MaxTokenLen == 9

(* Program constants *)

\* self.token[:8]
TokenPrefixLen == 8
\* time.sleep(5)
RetryDelay == 5
\* timeout: int = 10
DefaultTimeout == 10
\* resp.status_code == 429
TooManyRequests == 429

-----------------------------------------------------------------------------
(* Strings *)

Min(a, b) == IF a < b THEN a ELSE b

\* s[:n]
Take(s, n) == SubSeq(s, 1, Min(n, Len(s)))

\* needle in hay
Contains(hay, needle) ==
    \E i \in 0..(Len(hay) - Len(needle)) :
        SubSeq(hay, i + 1, i + Len(needle)) = needle

\* s.rstrip("/")
RECURSIVE Rstrip(_)
Rstrip(s) ==
    IF s # <<>> /\ s[Len(s)] = "/" THEN Rstrip(SubSeq(s, 1, Len(s) - 1)) ELSE s

SeqsUpTo(S, n) == UNION {[1..k -> S] : k \in 0..n}

-----------------------------------------------------------------------------
(* JSON values and HTTP responses *)

ServerError == "Bot not in this group"

\* the groups of an info body: the first n group ids
GroupList(n) == [i \in 1..n |-> i]
GroupLists == {GroupList(n) : n \in 0..MaxGroups}

\* a parsed JSON value: an object (dict) or any other JSON value (list, string,
\* number, null).  An object has an "error" entry or not, and a "bot" entry of
\* the documented shape (its groups, each with an id, and its stats) or none:
\* groups <<>> and stats "absent" are what .get's defaults give then.
JsonObject(error, grps, stats) ==
    [json |-> "object", error |-> error, groups |-> grps, stats |-> stats]
JsonOther == [json |-> "other", error |-> "absent", groups |-> <<>>, stats |-> "absent"]
NoData == [json |-> "none", error |-> "absent", groups |-> <<>>, stats |-> "absent"]

JsonObjects ==
    {JsonObject(ServerError, <<>>, "absent")}
    \cup {JsonObject("absent", g, "stats") : g \in GroupLists}

\* a response body: JSON text of a value, or text that is not JSON (the empty body is)
Bodies ==
    {[text |-> "not json", data |-> NoData]}
    \cup {[text |-> "json", data |-> d] : d \in JsonObjects \cup {JsonOther}}

Statuses == {200, 400, 401, 403, 404, TooManyRequests}

NoBody == [text |-> "none", data |-> NoData]
NoTransport == [kind |-> "none", status |-> 0, body |-> NoBody]

Responses == {[kind |-> "response", status |-> s, body |-> b] : s \in Statuses, b \in Bodies}

\* what self._session.request can do: return a response or raise
Exceptions == {[kind |-> k, status |-> 0, body |-> NoBody] :
                  k \in {"ConnectionError", "Timeout", "RequestException"}}

Transports == Responses \cup Exceptions

-----------------------------------------------------------------------------
(* Exceptions and results *)

\* the text of an exception: a fixed text with the number and the url it formats in
Msg(text, num, url) == [text |-> text, num |-> num, url |-> url]
NoMsg == Msg("", 0, <<>>)

\* the SDK's error taxonomy: OshiBotError and its subclasses
SdkErrors == {"OshiBotError", "OshiAuthError", "OshiRateLimitError", "OshiGroupError"}

Raise(cls, msg) == [kind |-> "raise", cls |-> cls, msg |-> msg, value |-> NoData, list |-> <<>>]
Return(data) == [kind |-> "return", cls |-> "none", msg |-> NoMsg, value |-> data, list |-> <<>>]
ReturnList(l) == [kind |-> "return", cls |-> "none", msg |-> NoMsg, value |-> NoData, list |-> l]
NoResult == [kind |-> "none", cls |-> "none", msg |-> NoMsg, value |-> NoData, list |-> <<>>]

-----------------------------------------------------------------------------
(* OshiBot.__init__ *)

Construct(tok, base, tmo, retry) ==
    [token |-> tok, base_url |-> Rstrip(base), timeout |-> tmo, auto_retry |-> retry]

-----------------------------------------------------------------------------
(* OshiBot._request *)

\* kwargs.setdefault(key, value)
SetDefault(kwargs, key, value) ==
    IF key \in DOMAIN kwargs THEN kwargs ELSE kwargs @@ (key :> value)

\* the arguments of self._session.request(method, url, **kwargs)
BuildRequest(base, tmo, method, endpoint, kwargs) ==
    [method |-> method, url |-> base \o endpoint,
     kwargs |-> SetDefault(kwargs, "timeout", tmo)]

\* the except clauses around the first attempt; any other exception propagates
FirstAttemptError(t1, url, tmo) ==
    CASE t1.kind = "ConnectionError" ->
            Raise("OshiBotError", Msg("Connection failed: ", 0, url))
      [] t1.kind = "Timeout" ->
            Raise("OshiBotError", Msg("Request timed out after s", tmo, <<>>))
      [] OTHER -> Raise(t1.kind, NoMsg)

\* a retry that does not look at the auto_retry flag
WantsRetry_IgnoreFlag(resp, retry) == resp.status = TooManyRequests

\* a retry that does not look at the status
WantsRetry_AnyStatus(resp, retry) == retry

\* if resp.status_code == 429: if self.auto_retry:
WantsRetry(resp, retry) == resp.status = TooManyRequests /\ retry

\* a retry that loses the timeout
RetryRequest_NoTimeout(req) ==
    [req EXCEPT !.kwargs = [k \in DOMAIN req.kwargs \ {"timeout"} |-> req.kwargs[k]]]

\* the request the retry issues: the same method, url and kwargs
RetryRequest(req) == req

\* a retry whose response is not assigned to resp
RetryAttempt_KeepFirst(resp, t2) == resp

\* try: resp = self._session.request(...) except Exception: pass
RetryAttempt(resp, t2) == IF t2.kind = "response" THEN t2 ELSE resp

\* resp.json() raises ValueError
ParseFails(body) == body.text # "json"

\* data.get("error", default); data.get exists on a dict only
RaiseWithError(cls, data, default) ==
    IF data.json # "object"
    THEN Raise("AttributeError", Msg("object has no attribute 'get'", 0, <<>>))
    ELSE Raise(cls, IF data.error # "absent" THEN Msg(data.error, 0, <<>>) ELSE default)

\* the status checks after the parse
Classify(status, data) ==
    IF status = 401 THEN RaiseWithError("OshiAuthError", data, Msg("Invalid bot token", 0, <<>>))
    ELSE IF status = 403
    THEN RaiseWithError("OshiGroupError", data, Msg("Bot not assigned to group", 0, <<>>))
    ELSE IF status = 404 THEN RaiseWithError("OshiBotError", data, Msg("Not found", 0, <<>>))
    ELSE IF status >= 400 THEN RaiseWithError("OshiBotError", data, Msg("HTTP ", status, <<>>))
    ELSE Return(data)

\* the status checks of 401 moved before the parse
HandleResponse_StatusFirst(resp) ==
    IF resp.status = 401 /\ ParseFails(resp.body)
    THEN Raise("OshiAuthError", Msg("Invalid bot token", 0, <<>>))
    ELSE IF ParseFails(resp.body)
    THEN Raise("OshiBotError", Msg("Invalid response from server (HTTP )", resp.status, <<>>))
    ELSE Classify(resp.status, resp.body.data)

\* parse, then classify
HandleResponse(resp) ==
    IF ParseFails(resp.body)
    THEN Raise("OshiBotError", Msg("Invalid response from server (HTTP )", resp.status, <<>>))
    ELSE Classify(resp.status, resp.body.data)

RateLimitError == Raise("OshiRateLimitError", Msg("Rate limit: max 60 messages/minute", 0, <<>>))

\* a second attempt is issued: the first one returned a response that wants a retry
Retried(t1, retry) == t1.kind = "response" /\ WantsRetry(t1, retry)

\* one call of _request, the two attempts ending in t1 and (if issued) t2
Request(base, tmo, retry, method, endpoint, kwargs, t1, t2) ==
    LET req == BuildRequest(base, tmo, method, endpoint, kwargs)
        retried == Retried(t1, retry)
        resp == IF retried THEN RetryAttempt(t1, t2) ELSE t1
    IN  [first |-> t1,
         second |-> IF retried THEN t2 ELSE NoTransport,
         attempts |-> IF retried THEN <<req, RetryRequest(req)>> ELSE <<req>>,
         slept |-> IF retried THEN RetryDelay ELSE 0,
         outcome |->
            IF t1.kind # "response" THEN FirstAttemptError(t1, req.url, tmo)
            ELSE IF t1.status = TooManyRequests /\ resp.status = TooManyRequests
            THEN RateLimitError
            ELSE HandleResponse(resp)]

\* the outcomes of the second attempt the environment can choose from
SecondTransports(t1, retry) == IF Retried(t1, retry) THEN Transports ELSE {NoTransport}

NoCall == [first |-> NoTransport, second |-> NoTransport, outcome |-> NoResult,
           attempts |-> <<>>, slept |-> 0]

-----------------------------------------------------------------------------
(* The requests of the public operations *)

EmptyDict == [k \in {} |-> k]

Call(method, endpoint, kwargs) == [method |-> method, endpoint |-> endpoint, kwargs |-> kwargs]

SendCall(tok, group_id, content) ==
    Call("POST", <<"/api/bot/send">>,
         "json" :> [token |-> tok, groupId |-> group_id, content |-> content])

InfoCall(tok) == Call("GET", <<"/api/bot/info">>, "params" :> [token |-> tok])

\* Optional[list]: None or a list
None == [some |-> FALSE, val |-> <<>>]
Some(v) == [some |-> TRUE, val |-> v]

\* groups or []
OrEmpty(grps) == IF ~grps.some \/ grps.val = <<>> THEN <<>> ELSE grps.val

RegisterCall(tok, bot_name, owner_public_key, grps) ==
    Call("POST", <<"/api/bot/register">>,
         "json" :> [token |-> tok, botName |-> bot_name, ownerPublicKey |-> owner_public_key,
                    groups |-> OrEmpty(grps)])

UpdateGroupsCall(tok, grps) ==
    Call("POST", <<"/api/bot/update-groups">>, "json" :> [token |-> tok, groups |-> grps])

UnregisterCall(tok) == Call("DELETE", <<"/api/bot/unregister">>, "params" :> [token |-> tok])

ListBotsCall == Call("GET", <<"/api/bot/list">>, EmptyDict)

\* every way one call of self._request(...) can go
Calls(c) ==
    UNION {{Request(base_url, timeout, auto_retry, c.method, c.endpoint, c.kwargs, t1, t2) :
                t2 \in SecondTransports(t1, auto_retry)} : t1 \in Transports}

-----------------------------------------------------------------------------
(* Inputs *)

TokenChars == {"a", "b"}
Tokens == SeqsUpTo(TokenChars, MaxTokenLen) \ {<<>>}

\* the tokens of the clients that issue requests: a short one and a 32-character one
LongToken == [i \in 1..32 |-> IF i % 2 = 1 THEN "a" ELSE "b"]
ShortToken == <<"a", "b", "b", "a">>

BaseUrls == {<<"https://oshi-messenger.com">>, <<"http://localhost:3000", "/", "/">>}

\* the constructor arguments of the clients that issue requests
Clients ==
    {[token |-> ShortToken, base |-> <<"https://oshi-messenger.com">>,
      timeout |-> DefaultTimeout, retry |-> TRUE],
     [token |-> LongToken, base |-> <<"http://localhost:3000", "/", "/">>,
      timeout |-> 3, retry |-> FALSE]}
GroupIds == 1..MaxGroups
Contents == {"Hello from OSHI Bot!"}
BotNames == {"My Alert Bot"}
PublicKeys == {"base64url_pubkey"}
GroupArgs == {<<>>, <<1>>}

-----------------------------------------------------------------------------
(* State *)

Constructed(c) ==
    /\ token = c.token
    /\ base_url = c.base_url
    /\ timeout = c.timeout
    /\ auto_retry = c.auto_retry
    /\ pc = "idle"
    /\ op = [name |-> "none", content |-> ""]
    /\ last = NoCall
    /\ result = NoResult
    /\ groups = <<>>
    /\ idx = 0
    /\ results = <<>>
    /\ sendLog = <<>>
    /\ display = <<>>

Init == \E c \in Clients : Constructed(Construct(c.token, c.base, c.timeout, c.retry))

\* an operation that is one call of _request and returns what it returns
Simple(name, c) ==
    /\ pc = "idle"
    /\ \E r \in Calls(c) :
        /\ last' = r
        /\ result' = r.outcome
    /\ pc' = "returned"
    /\ op' = [name |-> name, content |-> ""]
    /\ UNCHANGED <<config, groups, idx, results, sendLog, display>>

Send == \E g \in GroupIds, c \in Contents : Simple("send", SendCall(token, g, c))

Info == Simple("info", InfoCall(token))

Register ==
    \E n \in BotNames, k \in PublicKeys, g \in {None} \cup {Some(a) : a \in GroupArgs} :
        Simple("register", RegisterCall(token, n, k, g))

UpdateGroups == \E g \in GroupArgs : Simple("update_groups", UpdateGroupsCall(token, g))

Unregister == Simple("unregister", UnregisterCall(token))

ListBots == Simple("list_bots", ListBotsCall)

\* bot_info.get("bot", {}).get(...): bot_info.get exists on a dict only
NotADict == Raise("AttributeError", Msg("object has no attribute 'get'", 0, <<>>))

\* what get_groups makes of info's outcome
GroupsOf(o) ==
    IF o.kind = "raise" THEN o
    ELSE IF o.value.json # "object" THEN NotADict
    ELSE ReturnList(o.value.groups)

\* what get_stats makes of info's outcome
StatsOf(o) ==
    IF o.kind = "raise" THEN o
    ELSE IF o.value.json # "object" THEN NotADict
    ELSE Return([json |-> "stats", error |-> "absent", groups |-> <<>>,
                 stats |-> o.value.stats])

GetGroups ==
    /\ pc = "idle"
    /\ \E r \in Calls(InfoCall(token)) :
        /\ last' = r
        /\ result' = GroupsOf(r.outcome)
    /\ pc' = "returned"
    /\ op' = [name |-> "get_groups", content |-> ""]
    /\ UNCHANGED <<config, groups, idx, results, sendLog, display>>

GetStats ==
    /\ pc = "idle"
    /\ \E r \in Calls(InfoCall(token)) :
        /\ last' = r
        /\ result' = StatsOf(r.outcome)
    /\ pc' = "returned"
    /\ op' = [name |-> "get_stats", content |-> ""]
    /\ UNCHANGED <<config, groups, idx, results, sendLog, display>>

-----------------------------------------------------------------------------
(* OshiBot.send_to_all_groups *)

\* results.append(result)
BodyEntry(data) == [entry |-> "body", body |-> data, groupId |-> 0, error |-> NoMsg]

\* results.append({"success": False, "groupId": group["id"], "error": str(e)})
FailureEntry(group_id, e) ==
    [entry |-> "failure", body |-> NoData, groupId |-> group_id, error |-> e.msg]

\* except OshiBotError catches the SDK's errors and nothing else
Caught(o) == o.kind = "raise" /\ o.cls \in SdkErrors

\* the order the loop visits the groups in
LoopOrder(grps) == grps

\* bot_info = self.info(); results = []; the loop is entered when there is a group
SendToAllGroups ==
    /\ pc = "idle"
    /\ \E c \in Contents :
        /\ op' = [name |-> "send_to_all_groups", content |-> c]
        /\ \E r \in Calls(InfoCall(token)) :
            LET got == GroupsOf(r.outcome)
            IN  /\ last' = r
                /\ IF got.kind = "raise"
                   THEN /\ result' = got
                        /\ pc' = "returned"
                        /\ UNCHANGED <<groups, idx>>
                   ELSE /\ groups' = LoopOrder(got.list)
                        /\ idx' = 1
                        /\ IF got.list = <<>>
                           THEN result' = ReturnList(<<>>) /\ pc' = "returned"
                           ELSE result' = NoResult /\ pc' = "loop"
    /\ results' = <<>>
    /\ sendLog' = <<>>
    /\ UNCHANGED <<config, display>>

\* one iteration of the loop; after the last one, return results
SendToAllNext ==
    /\ pc = "loop"
    /\ idx <= Len(groups)
    /\ \E r \in Calls(SendCall(token, groups[idx], op.content)) :
        /\ last' = r
        /\ sendLog' = Append(sendLog, [group |-> groups[idx], outcome |-> r.outcome])
        /\ IF r.outcome.kind = "raise" /\ ~Caught(r.outcome)
           THEN /\ result' = r.outcome
                /\ pc' = "returned"
                /\ UNCHANGED <<results, idx>>
           ELSE /\ results' = Append(results,
                                     IF r.outcome.kind = "return"
                                     THEN BodyEntry(r.outcome.value)
                                     ELSE FailureEntry(groups[idx], r.outcome))
                /\ idx' = idx + 1
                /\ IF idx = Len(groups)
                   THEN result' = ReturnList(results') /\ pc' = "returned"
                   ELSE result' = NoResult /\ pc' = "loop"
    /\ UNCHANGED <<config, op, groups, display>>

-----------------------------------------------------------------------------
(* The caller *)

\* the caller has the result or the exception and is free to call again
CallerContinues ==
    /\ pc = "returned"
    /\ pc' = "idle"
    /\ op' = [name |-> "none", content |-> ""]
    /\ last' = NoCall
    /\ result' = NoResult
    /\ groups' = <<>>
    /\ idx' = 0
    /\ results' = <<>>
    /\ sendLog' = <<>>
    /\ UNCHANGED <<config, display>>

Next ==
    \/ Send
    \/ Info
    \/ Register
    \/ UpdateGroups
    \/ Unregister
    \/ ListBots
    \/ SendToAllGroups
    \/ SendToAllNext
    \/ GetGroups
    \/ GetStats
    \/ CallerContinues

Spec == Init /\ [][Next]_vars

-----------------------------------------------------------------------------
(* OshiBot.__repr__ *)

\* f"OshiBot(token='{self.token[:8]}...', base_url='{self.base_url}')"
Repr(tok, base) ==
    <<"OshiBot(token='">> \o Take(tok, TokenPrefixLen) \o <<".", ".", ".">>
        \o <<"', base_url='">> \o base \o <<"')">>

InitDisplay ==
    \E tok \in Tokens, base \in BaseUrls, retry \in BOOLEAN :
        Constructed(Construct(tok, base, DefaultTimeout, retry))

\* print(f"SDK initialized: {bot}")
Display ==
    /\ pc = "idle"
    /\ display = <<>>
    /\ display' = Repr(token, base_url)
    /\ UNCHANGED <<config, pc, op, last, result, groups, idx, results, sendLog>>

SpecDisplay == InitDisplay /\ [][Display]_vars

-----------------------------------------------------------------------------
(* Properties of the request executor *)

\* a call of _request has been made and `last` holds it
Called == last.attempts # <<>>

GotResponse(t) == t.kind = "response"
Got429(t) == GotResponse(t) /\ t.status = 429
TransportFailure(t) == t.kind \in {"ConnectionError", "Timeout"}

\* the response the parse and the status checks were given
FinalResponse == IF GotResponse(last.second) THEN last.second ELSE last.first

\* the Transport errors: OshiBotError with one of the two transport texts
IsTransportError(o) ==
    /\ o.kind = "raise"
    /\ o.cls = "OshiBotError"
    /\ o.msg.text \in {"Connection failed: ", "Request timed out after s"}

IsRateLimitError(o) == o.kind = "raise" /\ o.cls = "OshiRateLimitError"

\* C1: with retry enabled and both the first and the retry response 429, exactly
\* two attempts are made and the call fails with RateLimit; with retry disabled
\* and a first response of 429, exactly one attempt is made and the call fails
\* with RateLimit.
C1_OneRetryThenRateLimit ==
    Called =>
        /\ (auto_retry /\ Got429(last.first) /\ Got429(last.second)) =>
              (Len(last.attempts) = 2 /\ IsRateLimitError(last.outcome))
        /\ (~auto_retry /\ Got429(last.first)) =>
              (Len(last.attempts) = 1 /\ IsRateLimitError(last.outcome))

C1_Witness ==
    /\ pc = "returned"
    /\ auto_retry
    /\ Got429(last.first)
    /\ Got429(last.second)
    /\ Len(last.attempts) = 2

\* C2: whenever an attempt, the first or the retry, ends in a transport failure
\* the call fails with a Transport error (never with another class).
C2_TransportFailureSurfaces ==
    (Called /\ (TransportFailure(last.first) \/ TransportFailure(last.second)))
        => IsTransportError(last.outcome)

\* C3: when the body of the final response (one that is not handled as a rate
\* limit) does not parse, the call fails with the Protocol error carrying the
\* status, whatever the status is: 401, 403 and 404 included.
C3_ProtocolBeforeStatus ==
    (/\ Called
     /\ GotResponse(last.first)
     /\ FinalResponse.status # 429
     /\ FinalResponse.body.text # "json")
        => last.outcome =
             Raise("OshiBotError",
                   Msg("Invalid response from server (HTTP )", FinalResponse.status, <<>>))

C3_Witness ==
    /\ pc = "returned"
    /\ GotResponse(last.first)
    /\ FinalResponse.status = 401
    /\ FinalResponse.body.text # "json"
    /\ last.outcome.cls = "OshiBotError"

\* the class the claim gives a status of 400 and more
ClassOfStatus(status) ==
    CASE status = 401 -> "OshiAuthError"
      [] status = 403 -> "OshiGroupError"
      [] OTHER -> "OshiBotError"

\* C4: for every final response whose body parses, the status alone decides the
\* outcome: 401 Auth, 403 GroupAssignment, 404 NotFound, another status of 400
\* and more the generic API error (with the server's message when there is one,
\* else the default made of the status), a status below 400 the parsed body.
C4_StatusAloneClassifies ==
    (/\ Called
     /\ GotResponse(last.first)
     /\ FinalResponse.status # 429
     /\ FinalResponse.body.text = "json")
        => LET status == FinalResponse.status
               data == FinalResponse.body.data
           IN  IF status < 400
               THEN last.outcome = Return(data)
               ELSE /\ last.outcome.kind = "raise"
                    /\ last.outcome.cls = ClassOfStatus(status)
                    /\ status \notin {401, 403, 404} =>
                          last.outcome.msg =
                              IF data.error # "absent" THEN Msg(data.error, 0, <<>>)
                                                       ELSE Msg("HTTP ", status, <<>>)

\* C5: every call of _request ends in a decoded body or in an error of the
\* SDK's taxonomy: no other exception reaches the caller.
C5_OnlyClassifiedFailures ==
    Called => \/ last.outcome.kind = "return"
              \/ last.outcome.kind = "raise" /\ last.outcome.cls \in SdkErrors

\* C6: a transport failure of the first attempt ends the call after that one
\* attempt, without the wait, in a Transport error, whatever auto_retry is; and
\* a second attempt is issued only after a first response of 429 with auto_retry.
C6_NoRetryOnTransportFailure ==
    Called =>
        /\ TransportFailure(last.first) =>
              /\ Len(last.attempts) = 1
              /\ last.slept = 0
              /\ IsTransportError(last.outcome)
        /\ Len(last.attempts) <= 2
        /\ Len(last.attempts) = 2 => (Got429(last.first) /\ auto_retry)

C6_Witness ==
    /\ pc = "returned"
    /\ auto_retry
    /\ TransportFailure(last.first)
    /\ Len(last.attempts) = 1

\* C7: after a 429 and a retry that got a response other than 429, the outcome
\* is what the parse and the status checks make of the second response alone;
\* with a 200 and a body that parses it is that body.
C7_RetryResponseDecides ==
    (/\ Called
     /\ auto_retry
     /\ Got429(last.first)
     /\ GotResponse(last.second)
     /\ last.second.status # 429)
        => /\ last.outcome = HandleResponse(last.second)
           /\ (last.second.status = 200 /\ last.second.body.text = "json") =>
                 last.outcome = Return(last.second.body.data)

C7_Witness ==
    /\ pc = "returned"
    /\ Got429(last.first)
    /\ GotResponse(last.second)
    /\ last.second.status = 200
    /\ last.second.body.text = "json"
    /\ last.second.body.data # last.first.body.data
    /\ last.outcome.kind = "return"

-----------------------------------------------------------------------------
(* Properties of the operations *)

\* C8: once info has listed the groups, send_to_all_groups returns a list with
\* one entry per group, in the listed order: the failure record of the group
\* whose send failed, the decoded body of the send otherwise.
C8_OneEntryPerGroup ==
    (pc = "returned" /\ op.name = "send_to_all_groups" /\ idx >= 1)
        => /\ result.kind = "return"
           /\ Len(result.list) = Len(groups)
           /\ Len(sendLog) = Len(groups)
           /\ \A i \in 1..Len(groups) :
                 /\ sendLog[i].group = groups[i]
                 /\ result.list[i] =
                       IF sendLog[i].outcome.kind = "raise"
                       THEN FailureEntry(groups[i], sendLog[i].outcome)
                       ELSE BodyEntry(sendLog[i].outcome.value)

\* C9: the display form shows a proper prefix of the token and does not
\* contain the token.
C9_ReprHidesToken ==
    display # <<>> =>
        /\ Len(Take(token, TokenPrefixLen)) < Len(token)
        /\ ~Contains(display, token)

\* C10: no operation changes the token, the base address, the timeout or the
\* retry flag, and the retry of a call is issued with the request of its first
\* attempt: the same method, url, parameters, body and timeout.
C10_ConfigAndRequestUnchanged ==
    [][/\ config' = config
       /\ Len(last'.attempts) = 2 => last'.attempts[2] = last'.attempts[1]]_vars

C10_Witness ==
    /\ pc = "returned"
    /\ op.name = "send_to_all_groups"
    /\ Len(groups) = 2
    /\ Len(last.attempts) = 2
    /\ "timeout" \in DOMAIN last.attempts[2].kwargs

====
